---- MODULE Spec2Model ----
(***************************************************************************)
(* A model of src/main.py: a Telegram bot (aiogram) that lists the         *)
(* CONVERTED leads of a Bitrix24 CRM older than one minute, presents each  *)
(* with three inline buttons, and writes the operator's choice back.       *)
(*                                                                         *)
(* Time is counted in whole minutes.  A Python string is a sequence of     *)
(* tokens (a token is a TLA+ string); "_" is always a token of its own, so *)
(* that str.split("_") is modelled by what it does.  A Python value is a   *)
(* record [ty, v].                                                         *)
(***************************************************************************)
EXTENDS Integers, Sequences, FiniteSets, TLC

VARIABLES
    now,          \* the wall clock, in minutes
    crm,          \* the CRM's lead table: a sequence of lead rows
    leads_cache,  \* main.py:30, a dict: lead id -> lead
    messages,     \* the messages of the chat that carry a lead
    handlers,     \* the handler tasks the dispatcher has started
    fetches,      \* history: the list returned by every successful fetch, in order
    call,         \* client harness: the CRM client call under test
    ret           \* client harness: what that call returned

vars == <<now, crm, leads_cache, messages, handlers, fetches, call, ret>>

-----------------------------------------------------------------------------
(* Bounds of the model *)

MaxNow == 3
MaxHandlers == 3
MaxRaw == 3
MaxCrmChanges == 1

-----------------------------------------------------------------------------
(* Python values *)

PNone == [ty |-> "none", v |-> 0]
PBool(b) == [ty |-> "bool", v |-> IF b THEN 1 ELSE 0]
PInt(n) == [ty |-> "int", v |-> n]
PStr(s) == [ty |-> "str", v |-> s]
PList(s) == [ty |-> "list", v |-> s]
PDict(f) == [ty |-> "dict", v |-> f]
EmptyDict == PDict([k \in {} |-> PNone])

\* bool(x)
Truthy(x) ==
    CASE x.ty = "none" -> FALSE
      [] x.ty = "bool" -> x.v = 1
      [] x.ty = "int" -> x.v # 0
      [] x.ty = "str" -> Len(x.v) > 0
      [] x.ty = "list" -> Len(x.v) > 0
      [] x.ty = "dict" -> DOMAIN x.v # {}

\* d.get(k, dflt) for a dict d; on any other value .get raises AttributeError
HasGet(d) == d.ty = "dict"
Get(d, k, dflt) == IF k \in DOMAIN d.v THEN d.v[k] ELSE dflt

\* str(x) as an f-string renders it
Format(x) ==
    CASE x.ty = "str" -> x.v
      [] x.ty = "int" -> <<ToString(x.v)>>
      [] x.ty = "none" -> <<"None">>
      [] x.ty = "bool" -> <<IF x.v = 1 THEN "True" ELSE "False">>
      [] OTHER -> <<"<object>">>

RECURSIVE SplitFrom(_, _, _)
\* the pieces of s between separators sep, cur being the piece under way
SplitFrom(s, sep, cur) ==
    IF s = <<>> THEN <<cur>>
    ELSE IF Head(s) = sep THEN <<cur>> \o SplitFrom(Tail(s), sep, <<>>)
    ELSE SplitFrom(Tail(s), sep, Append(cur, Head(s)))

\* s.split(sep)
Split(s, sep) == SplitFrom(s, sep, <<>>)

\* s.startswith(p)
StartsWith(s, p) == Len(s) >= Len(p) /\ SubSeq(s, 1, Len(p)) = p

-----------------------------------------------------------------------------
(* Timestamps.  An ISO timestamp is the token sequence <<dt>>, <<dt, "Z">> *)
(* or <<dt, offset>>: dt is ToString of the local minute count, offset one *)
(* of the keys of UtcOffset.                                               *)

Threshold == 1
DeadlineHours == 2

DtRange == 0..(MaxNow + 1)
UtcOffset == [o \in {"+00:00", "+00:01", "-00:01"} |->
                 IF o = "+00:00" THEN 0 ELSE IF o = "+00:01" THEN 1 ELSE -1]

\* s.replace(old, new), old and new one token each
Replace(s, old, new) == [i \in 1..Len(s) |-> IF s[i] = old THEN new ELSE s[i]]

IsDt(tok) == \E i \in DtRange : ToString(i) = tok
DtVal(tok) == CHOOSE i \in DtRange : ToString(i) = tok

\* datetime.fromisoformat(s): ok is FALSE where it raises ValueError
fromisoformat(s) ==
    IF Len(s) = 1 /\ IsDt(s[1])
    THEN [ok |-> TRUE, t |-> DtVal(s[1]), aware |-> FALSE, off |-> 0]
    ELSE IF Len(s) = 2 /\ IsDt(s[1]) /\ s[2] \in DOMAIN UtcOffset
    THEN [ok |-> TRUE, t |-> DtVal(s[1]), aware |-> TRUE, off |-> UtcOffset[s[2]]]
    ELSE [ok |-> FALSE, t |-> 0, aware |-> FALSE, off |-> 0]

\* lines 61-64: astimezone(utc) of an aware time, replace(tzinfo=utc) of a naive one
ToUtc(d) == IF d.aware THEN d.t - d.off ELSE d.t

Unknown == <<"Unknown">>
NA == <<"N/A">>

\* lines 67-71: the dict appended for an expired lead
ExpiredItem(lead) ==
    [id |-> Get(lead, "ID", PNone),
     name |-> Get(lead, "NAME", PStr(Unknown)),
     phone |-> IF Truthy(Get(lead, "PHONE", PNone))
               THEN Get(lead, "PHONE", PStr(NA)) ELSE PStr(NA)]

\* a lead exactly one threshold old counted as expired
IsExpired_inclusive(created_time_utc, threshold) == created_time_utc <= threshold

\* line 66
IsExpired(created_time_utc, threshold) == created_time_utc < threshold

\* lines 56-74, one pass of the loop body: exc where the body raised (and the
\* except clause went on to the next lead), keep where the lead was appended
LeadStep(lead, threshold) ==
    IF ~HasGet(lead) THEN [exc |-> TRUE, keep |-> FALSE]
    ELSE LET date_str == Get(lead, "DATE_CREATE", PStr(<<>>)) IN
         IF date_str.ty # "str" THEN [exc |-> TRUE, keep |-> FALSE]
         ELSE LET created_time == fromisoformat(Replace(date_str.v, "Z", "+00:00")) IN
              IF ~created_time.ok THEN [exc |-> TRUE, keep |-> FALSE]
              ELSE [exc |-> FALSE,
                    keep |-> IsExpired(ToUtc(created_time), threshold)]

RECURSIVE FilterLoop(_, _)
\* lines 55-74
FilterLoop(leads, threshold) ==
    IF leads = <<>> THEN <<>>
    ELSE LET r == LeadStep(Head(leads), threshold)
             rest == FilterLoop(Tail(leads), threshold)
         IN IF r.keep THEN <<ExpiredItem(Head(leads))>> \o rest ELSE rest

\* lines 50-77: the filtering step, on the list data['result']
FilterExpired(result, clock) == FilterLoop(result, clock - Threshold)

-----------------------------------------------------------------------------
(* The CRM client.  A response is [kind, body]: kind "transport_error"     *)
(* (client.get/post raised), "http_error" (raise_for_status raised),       *)
(* "bad_json" (response.json() raised) or "json" with the decoded body.    *)
(* An operation's outcome is [raised, value].                              *)

Resp(kind, body) == [kind |-> kind, body |-> body]
Returned(x) == [raised |-> FALSE, value |-> x]
Raised == [raised |-> TRUE, value |-> PNone]

\* lines 36-77, the body of the try: exc where an exception left it
FetchBody(resp, clock) ==
    IF resp.kind # "json" THEN [exc |-> TRUE, val |-> <<>>]
    ELSE LET data == resp.body IN
         IF ~HasGet(data) THEN [exc |-> TRUE, val |-> <<>>]
         ELSE LET result == Get(data, "result", PNone) IN
              IF ~Truthy(result) THEN [exc |-> FALSE, val |-> <<>>]
              ELSE IF result.ty = "list"
              THEN [exc |-> FALSE, val |-> FilterExpired(result.v, clock)]
              \* iterating an int or a bool raises TypeError; iterating a str or
              \* a dict yields strings, on which .get raises in the loop body
              ELSE IF result.ty \in {"int", "bool"} THEN [exc |-> TRUE, val |-> <<>>]
              ELSE [exc |-> FALSE, val |-> <<>>]

\* lines 33-81
get_expired_leads(resp, clock) ==
    LET b == FetchBody(resp, clock) IN
    IF b.exc THEN Returned(PList(<<>>)) ELSE Returned(PList(b.val))

\* lines 124-139, the body of the try
UpdateBody(resp) ==
    IF resp.kind # "json" THEN [exc |-> TRUE, val |-> PNone]
    ELSE IF ~HasGet(resp.body) THEN [exc |-> TRUE, val |-> PNone]
    ELSE [exc |-> FALSE, val |-> Get(resp.body, "result", PBool(FALSE))]

\* the update without its except clause
update_lead_comment_unguarded(resp) ==
    LET b == UpdateBody(resp) IN
    IF b.exc THEN Raised ELSE Returned(b.val)

\* lines 121-143
update_lead_comment(resp) ==
    LET b == UpdateBody(resp) IN
    IF b.exc THEN Returned(PBool(FALSE)) ELSE Returned(b.val)

\* line 167: result.get('result', {}).get('task', {}).get('id') or result.get('result')
TaskIdOf(result) ==
    IF ~HasGet(result) THEN [exc |-> TRUE, val |-> PNone]
    ELSE LET r1 == Get(result, "result", EmptyDict) IN
         IF ~HasGet(r1) THEN [exc |-> TRUE, val |-> PNone]
         ELSE LET r2 == Get(r1, "task", EmptyDict) IN
              IF ~HasGet(r2) THEN [exc |-> TRUE, val |-> PNone]
              ELSE LET r3 == Get(r2, "id", PNone) IN
                   [exc |-> FALSE,
                    val |-> IF Truthy(r3) THEN r3 ELSE Get(result, "result", PNone)]

\* lines 162-169, the part of the try after the request is built
TaskBody(resp) ==
    IF resp.kind # "json" THEN [exc |-> TRUE, val |-> PNone]
    ELSE TaskIdOf(resp.body)

\* lines 146-173
create_follow_up_task(resp) ==
    LET b == TaskBody(resp) IN
    IF b.exc THEN Returned(PNone) ELSE Returned(b.val)

\* line 151: (datetime.now() + timedelta(hours=2)).strftime(...)
Deadline(clock) == <<ToString(clock + DeadlineHours * 60)>>

FollowUp == <<"Follow up: ">>
Postponed == <<"Postponed lead: ">>

\* lines 153-160: the payload of tasks.task.add
TaskPayload(lead_id, lead_name, clock) ==
    [TITLE |-> FollowUp \o Format(lead_name),
     DESCRIPTION |-> Postponed \o Format(lead_id),
     DEADLINE |-> Deadline(clock),
     RESPONSIBLE_ID |-> 1]

\* lines 126-131: the payload of crm.lead.update
UpdatePayload(lead_id, comment) == [id |-> lead_id, COMMENTS |-> comment]

-----------------------------------------------------------------------------
(* The inputs the CRM client is exercised on *)

Acme == <<"Acme">>

RawLead(id, date) ==
    PDict([ID |-> id, NAME |-> PStr(Acme), PHONE |-> PStr(<<"555">>),
           DATE_CREATE |-> date])

\* raw records of crm.lead.list: well-formed ones in the three timestamp
\* formats, and malformed ones
RawPool ==
    { RawLead(PStr(<<"5">>), PStr(d)) :
        d \in { <<"0">>, <<"1">>, <<"1", "Z">>, <<"2", "+00:01">>, <<"1", "-00:01">>,
                <<"garbage">>, <<>> } }
    \cup { RawLead(PInt(7), PNone),
           PDict([ID |-> PStr(<<"6">>), DATE_CREATE |-> PStr(<<"0", "Z">>)]),
           PDict([ID |-> PStr(<<"8">>), NAME |-> PStr(Acme)]),
           PStr(<<"not a record">>) }

RECURSIVE SeqsUpTo(_, _)
\* the sequences over S of length at most n
SeqsUpTo(S, n) ==
    IF n = 0 THEN {<<>>}
    ELSE LET shorter == SeqsUpTo(S, n - 1) IN
         shorter \cup { Append(q, x) : q \in shorter, x \in S }

HttpFailures ==
    { Resp(k, PNone) : k \in {"transport_error", "http_error", "bad_json"} }

FetchResponses ==
    HttpFailures
    \cup { Resp("json", b) : b \in { PList(<<>>), EmptyDict, PDict([result |-> PInt(3)]),
                                      PDict([result |-> PStr(<<"x">>)]),
                                      PDict([error |-> PStr(<<"denied">>)]) } }
    \cup { Resp("json", PDict([result |-> PList(l)])) : l \in SeqsUpTo(RawPool, MaxRaw) }

UpdateResponses ==
    HttpFailures
    \cup { Resp("json", b) : b \in { PList(<<>>), EmptyDict, PDict([result |-> PBool(TRUE)]),
                                      PDict([result |-> PBool(FALSE)]),
                                      PDict([error |-> PStr(<<"denied">>)]) } }

TaskIds == { PInt(57), PStr(<<"57">>) }
\* the two documented shapes of a successful tasks.task.add answer
NestedTask(id) == PDict([result |-> PDict([task |-> PDict([id |-> id])])])
FlatTask(id) == PDict([result |-> id])

TaskResponses ==
    HttpFailures
    \cup { Resp("json", b) : b \in { PList(<<>>), EmptyDict, PDict([result |-> PNone]),
                                      PDict([result |-> EmptyDict]),
                                      PDict([error |-> PStr(<<"denied">>)]) } }
    \cup { Resp("json", NestedTask(id)) : id \in TaskIds }
    \cup { Resp("json", FlatTask(id)) : id \in TaskIds }

NoCall == [op |-> "none", resp |-> Resp("transport_error", PNone), clock |-> 0]
NoRet == [done |-> FALSE, out |-> Returned(PNone)]

ClientCalls ==
    { [op |-> "get_expired_leads", resp |-> r, clock |-> c] :
        r \in FetchResponses, c \in 0..MaxNow }
    \cup { [op |-> "update_lead_comment", resp |-> r, clock |-> 0] : r \in UpdateResponses }
    \cup { [op |-> "create_follow_up_task", resp |-> r, clock |-> 0] : r \in TaskResponses }

Idle ==
    /\ now = 0 /\ crm = <<>> /\ leads_cache = [k \in {} |-> PNone]
    /\ messages = <<>> /\ handlers = <<>> /\ fetches = <<>>

ClientInit == Idle /\ call \in ClientCalls /\ ret = NoRet

BotIdle == UNCHANGED <<now, crm, leads_cache, messages, handlers, fetches>>

CallGetExpiredLeads ==
    /\ call.op = "get_expired_leads" /\ ~ret.done
    /\ ret' = [done |-> TRUE, out |-> get_expired_leads(call.resp, call.clock)]
    /\ UNCHANGED call /\ BotIdle

CallUpdateLeadComment ==
    /\ call.op = "update_lead_comment" /\ ~ret.done
    /\ ret' = [done |-> TRUE, out |-> update_lead_comment(call.resp)]
    /\ UNCHANGED call /\ BotIdle

CallCreateFollowUpTask ==
    /\ call.op = "create_follow_up_task" /\ ~ret.done
    /\ ret' = [done |-> TRUE, out |-> create_follow_up_task(call.resp)]
    /\ UNCHANGED call /\ BotIdle

ClientNext == CallGetExpiredLeads \/ CallUpdateLeadComment \/ CallCreateFollowUpTask

SpecClient == ClientInit /\ [][ClientNext]_vars

-----------------------------------------------------------------------------
(* Claims about the CRM client, checked under SpecClient *)

IsListCall ==
    /\ call.op = "get_expired_leads" /\ call.resp.kind = "json"
    /\ HasGet(call.resp.body) /\ "result" \in DOMAIN call.resp.body.v
    /\ call.resp.body.v["result"].ty = "list"

RawList == call.resp.body.v["result"].v

\* the record has a creation timestamp that parses
HasTimestamp(rec) ==
    /\ rec.ty = "dict" /\ "DATE_CREATE" \in DOMAIN rec.v
    /\ rec.v["DATE_CREATE"].ty = "str"
    /\ fromisoformat(Replace(rec.v["DATE_CREATE"].v, "Z", "+00:00")).ok

\* now - created_at, created_at being the UTC instant the timestamp denotes
AgeOf(rec) ==
    LET p == fromisoformat(Replace(rec.v["DATE_CREATE"].v, "Z", "+00:00")) IN
    call.clock - (p.t - p.off)

Qualifies(rec) == HasTimestamp(rec) /\ AgeOf(rec) > Threshold

\* C1: the filtering step returns exactly the records of L with
\* now - created_at > T (strictly), in the order of L; a record whose timestamp
\* does not parse or that is malformed is left out, whatever stands around it.
Theorem_C1 ==
    (ret.done /\ IsListCall) =>
        LET kept == SelectSeq(RawList, Qualifies) IN
        /\ ~ret.out.raised
        /\ ret.out.value.ty = "list"
        /\ Len(ret.out.value.v) = Len(kept)
        /\ \A i \in 1..Len(kept) : ret.out.value.v[i] = ExpiredItem(kept[i])

\* a malformed record, then one exactly one threshold old, then an older one:
\* only the last is returned
Witness_C1 ==
    /\ ret.done /\ IsListCall /\ Len(RawList) = 3
    /\ ~HasTimestamp(RawList[1])
    /\ HasTimestamp(RawList[2]) /\ AgeOf(RawList[2]) = Threshold
    /\ Qualifies(RawList[3])
    /\ ret.out.value.v = <<ExpiredItem(RawList[3])>>

\* C7: when tasks.task.add answers with either documented shape,
\* {result:{task:{id}}} or {result:id}, create_follow_up_task returns the id.
Claim_C7 ==
    \A id \in TaskIds :
        ( /\ ret.done /\ call.op = "create_follow_up_task"
          /\ call.resp.kind = "json"
          /\ call.resp.body \in {NestedTask(id), FlatTask(id)} )
        => ret.out = Returned(id)

\* a transport error, an HTTP error status, or a body that is not a JSON object
FailedResp(r) == r.kind # "json" \/ ~HasGet(r.body)

\* C8: no client operation raises to its caller; on a transport error, an HTTP
\* error status or a malformed body get_expired_leads returns [], update_lead_comment
\* a false value and create_follow_up_task None.
Theorem_C8 ==
    ret.done =>
        /\ ~ret.out.raised
        /\ FailedResp(call.resp) =>
            CASE call.op = "get_expired_leads" -> ret.out.value = PList(<<>>)
              [] call.op = "update_lead_comment" -> ~Truthy(ret.out.value)
              [] call.op = "create_follow_up_task" -> ret.out.value = PNone

Witness_C8 ==
    /\ ret.done /\ call.op = "update_lead_comment"
    /\ call.resp.kind = "bad_json" /\ ret.out = Returned(PBool(FALSE))

-----------------------------------------------------------------------------
(* The bot.  The dispatcher starts one task per update, and a task runs    *)
(* until its next await: every action below is one such stretch of a       *)
(* handler, from the completion of the call it awaited to its next await.  *)

\* the CRM's table at start: lead "5" created at minute 0, lead 7 (an
\* integer id) created at minute 1, both CONVERTED; the bot starts at minute
\* Threshold + 1, when the first has expired and the second has not
CrmTable ==
    << [lead |-> RawLead(PStr(<<"5">>), PStr(<<"0">>)), converted |-> TRUE],
       [lead |-> PDict([ID |-> PInt(7), NAME |-> PStr(<<"Bolt">>),
                        DATE_CREATE |-> PStr(<<"1", "Z">>)]), converted |-> TRUE] >>

RECURSIVE ConvertedOf(_)
\* crm.lead.list with filter[STATUS_ID]=CONVERTED (lines 38-40)
ConvertedOf(table) ==
    IF table = <<>> THEN <<>>
    ELSE IF Head(table).converted
         THEN <<Head(table).lead>> \o ConvertedOf(Tail(table))
         ELSE ConvertedOf(Tail(table))

\* what a crm.lead.list request can come back with
LeadListResponses ==
    HttpFailures \cup { Resp("json", PList(<<>>)),
                        Resp("json", PDict([result |-> PList(ConvertedOf(crm))])) }

\* the request got an answer that lists the CRM's leads
FetchSucceeded(resp) ==
    resp.kind = "json" /\ HasGet(resp.body) /\ "result" \in DOMAIN resp.body.v

\* lines 84-95
create_lead_keyboard(lead_id) ==
    << [text |-> "Called", callback_data |-> <<"called", "_">> \o Format(lead_id)],
       [text |-> "Wrote", callback_data |-> <<"wrote", "_">> \o Format(lead_id)],
       [text |-> "Postpone for 2 hours",
        callback_data |-> <<"postpone", "_">> \o Format(lead_id)] >>

\* line 108
LeadText(lead) == <<"*">> \o Format(lead.name) \o <<"*", "\n">> \o Format(lead.phone)

\* a cache keyed by the identifier as the callback data spells it
CachePut_formatted(c, k, v) ==
    [x \in DOMAIN c \cup {PStr(Format(k))} |-> IF x = PStr(Format(k)) THEN v ELSE c[x]]

\* a cache that holds the lead stored last and nothing else
CachePut_single(c, k, v) == [x \in {k} |-> v]

\* leads_cache[k] = v
CachePut(c, k, v) == [x \in DOMAIN c \cup {k} |-> IF x = k THEN v ELSE c[x]]

NoLeads == "No expired leads. All good!"
CalledOk == "Lead updated: marked as called"
WroteOk == "Lead updated: marked as wrote"
UpdateError == "Error updating lead"
NotFound == "Lead not found"
TaskOk == "Task created for 2 hours from now"
TaskError == "Error creating task"

\* a handler task: kind is the handler, pc the call it awaits ("done": it
\* returned, "raised": an exception left it).  calls, out and edits record
\* the CRM requests it issued, the messages and answers it sent to the
\* operator (ok: delivered) and the markup edits it made; resolved records,
\* for a /leads cycle, the leads whose controls were retracted when it fetched.
NewHandler(kind, msg, data) ==
    [kind |-> kind, pc |-> "start", msg |-> msg, data |-> data, start |-> now,
     lead_id |-> PNone, leads |-> <<>>, i |-> 0, result |-> PNone,
     calls |-> <<>>, out |-> <<>>, edits |-> 0, resolved |-> {}]

Running(h, kind, pc) ==
    /\ h \in 1..Len(handlers)
    /\ handlers[h].kind \in kind /\ handlers[h].pc = pc

BotInit ==
    /\ now = Threshold + 1 /\ crm = CrmTable /\ leads_cache = [k \in {} |-> PNone]
    /\ messages = <<>> /\ handlers = <<>> /\ fetches = <<>>
    /\ call = NoCall /\ ret = NoRet

ClientIdle == UNCHANGED <<call, ret>>

\* the clock moves
Tick ==
    /\ now < MaxNow /\ now' = now + 1
    /\ UNCHANGED <<crm, leads_cache, messages, handlers, fetches>> /\ ClientIdle

\* a lead leaves the CONVERTED status in the CRM (somebody processed it there)
CrmLeadProcessed ==
    \E r \in 1..Len(crm) :
        /\ Cardinality({x \in 1..Len(crm) : ~crm[x].converted}) < MaxCrmChanges
        /\ crm[r].converted
        /\ crm' = [crm EXCEPT ![r].converted = FALSE]
        /\ UNCHANGED <<now, leads_cache, messages, handlers, fetches>> /\ ClientIdle

\* an answer or a message sent to the operator
Ack(text, ok) == [what |-> "ack", text |-> text, lead |-> PNone, ok |-> ok]
LeadMessage(lead_id, ok) == [what |-> "lead", text |-> "", lead |-> lead_id, ok |-> ok]

\* lines 106-116: the loop of send_expired_leads_message reaches lead number i
\* of its list: it stores the lead and awaits send_message; past the last
\* lead the handler returns
LoopAt(hd, i) ==
    IF i <= Len(hd.leads)
    THEN [hd EXCEPT !.pc = "send_lead", !.i = i]
    ELSE [hd EXCEPT !.pc = "done", !.i = i]

CacheAt(hd, i) ==
    IF i <= Len(hd.leads)
    THEN CachePut(leads_cache, hd.leads[i].id, hd.leads[i])
    ELSE leads_cache

\* a fetch that leaves out the leads the cache already holds
FetchNow_uncached(resp) ==
    LET r == get_expired_leads(resp, now) IN
    [r EXCEPT !.value.v = SelectSeq(@, LAMBDA l : l.id \notin DOMAIN leads_cache)]

\* line 100: leads = await get_expired_leads(), answered by resp
FetchNow(resp) == get_expired_leads(resp, now)

\* a cycle that goes into its loop whatever the list holds
NothingToSend_never(leads) == FALSE

\* line 102: if not leads
NothingToSend(leads) == ~Truthy(leads)

\* lines 186-189, 98-107 and 33-81: a /leads command, from its arrival to
\* the first await of send_message.  The stretch before the answer of
\* crm.lead.list touches nothing another task reads; the leads are filtered
\* against the clock of the moment the answer arrives.  With no lead the
\* handler sends "no expired leads" (send_message raising takes the handler
\* with it); with leads it stores the first and awaits its message.
leads_command ==
    /\ Len(handlers) < MaxHandlers
    /\ \E resp \in LeadListResponses, ok \in BOOLEAN :
        LET r == FetchNow(resp)
            hd == [NewHandler("leads", 0, <<>>) EXCEPT
                      !.leads = r.value.v,
                      !.resolved = { messages[m].lead :
                                       m \in { x \in 1..Len(messages) :
                                                 messages[x].retracted_by # 0 } }]
        IN
        IF r.raised
        THEN /\ ok
             /\ handlers' = Append(handlers, [hd EXCEPT !.pc = "raised"])
             /\ UNCHANGED <<leads_cache, fetches>>
        ELSE /\ fetches' = Append(fetches,
                    [ok |-> FetchSucceeded(resp), crm |-> crm, clock |-> now,
                     leads |-> hd.leads, cached |-> DOMAIN leads_cache])
             /\ IF NothingToSend(r.value)
                THEN /\ handlers' = Append(handlers,
                            [hd EXCEPT !.out = <<Ack(NoLeads, ok)>>,
                                       !.pc = IF ok THEN "done" ELSE "raised"])
                     /\ UNCHANGED leads_cache
                ELSE /\ ok
                     /\ handlers' = Append(handlers, LoopAt(hd, 1))
                     /\ leads_cache' = CacheAt(hd, 1)
    /\ UNCHANGED <<now, crm, messages>> /\ ClientIdle

\* a loop that a failed send brings to an end
SendLeadReturn_abort(h) ==
    /\ Running(h, {"leads"}, "send_lead")
    /\ \E ok \in BOOLEAN :
        LET hd == handlers[h]
            lead == hd.leads[hd.i]
            sent == [hd EXCEPT !.out = Append(@, LeadMessage(lead.id, ok))]
        IN
        /\ messages' = IF ok
                       THEN Append(messages, [text |-> LeadText(lead),
                                              reply_markup |-> create_lead_keyboard(lead.id),
                                              lead |-> lead.id, retracted_by |-> 0])
                       ELSE messages
        /\ handlers' = [handlers EXCEPT ![h] =
               IF ok THEN LoopAt(sent, hd.i + 1) ELSE [sent EXCEPT !.pc = "raised"]]
        /\ leads_cache' = IF ok THEN CacheAt(hd, hd.i + 1) ELSE leads_cache
    /\ UNCHANGED <<now, crm, fetches>> /\ ClientIdle

\* lines 110-118 and 106-107: the send of lead i's message completes (the
\* message is in the chat, with its keyboard) or raises (logged); the loop
\* goes on to the next lead
SendLeadReturn(h) ==
    /\ Running(h, {"leads"}, "send_lead")
    /\ \E ok \in BOOLEAN :
        LET hd == handlers[h]
            lead == hd.leads[hd.i]
            sent == [hd EXCEPT !.out = Append(@, LeadMessage(lead.id, ok))]
        IN
        /\ messages' = IF ok
                       THEN Append(messages, [text |-> LeadText(lead),
                                              reply_markup |-> create_lead_keyboard(lead.id),
                                              lead |-> lead.id, retracted_by |-> 0])
                       ELSE messages
        /\ handlers' = [handlers EXCEPT ![h] = LoopAt(sent, hd.i + 1)]
        /\ leads_cache' = CacheAt(hd, hd.i + 1)
    /\ UNCHANGED <<now, crm, fetches>> /\ ClientIdle

\* what a crm.lead.update request can come back with
UpdateAnswers ==
    { Resp("transport_error", PNone), Resp("json", PDict([result |-> PBool(TRUE)])),
      Resp("json", PDict([result |-> PBool(FALSE)])) }

\* what a tasks.task.add request can come back with
TaskAnswers ==
    { Resp("transport_error", PNone), Resp("json", NestedTask(PInt(57))),
      Resp("json", FlatTask(PInt(57))) }

Pending == Resp("pending", PNone)

\* the buttons the chat shows
Pressable == { p \in (1..Len(messages)) \X (1..3) :
                 p[2] <= Len(messages[p[1]].reply_markup) }
DataOf(p) == messages[p[1]].reply_markup[p[2]].callback_data

\* lines 207, 221, 235: query.data.split("_")[1]
LeadIdOf(data) == PStr(Split(data, "_")[2])

\* a handler that answers only a success
Answered_silent(hd, success, okText, errText, ok) ==
    IF Truthy(success)
    THEN [hd EXCEPT !.out = Append(@, Ack(okText, ok)),
                    !.pc = IF ok THEN "edit" ELSE "raised"]
    ELSE [hd EXCEPT !.pc = "done"]

\* a handler that goes on to retract the controls whatever the outcome
Answered_always_edit(hd, success, okText, errText, ok) ==
    [hd EXCEPT !.out = Append(@, Ack(IF Truthy(success) THEN okText ELSE errText, ok)),
               !.pc = IF ok THEN "edit" ELSE "raised"]

\* a handler that returns after its answer, whatever the outcome
Answered_noedit(hd, success, okText, errText, ok) ==
    [hd EXCEPT !.out = Append(@, Ack(IF Truthy(success) THEN okText ELSE errText, ok)),
               !.pc = IF ok THEN "done" ELSE "raised"]

\* lines 211-215, 225-229, 244-248: query.answer with the wording for the
\* outcome; raising, it takes the handler with it; after a success answer
\* the handler awaits edit_reply_markup, after a failure answer it returns
Answered(hd, success, okText, errText, ok) ==
    [hd EXCEPT !.out = Append(@, Ack(IF Truthy(success) THEN okText ELSE errText, ok)),
               !.pc = IF ~ok THEN "raised"
                      ELSE IF Truthy(success) THEN "edit" ELSE "done"]

\* lines 204-209 and 218-223 with 121-134: a press of Called or Wrote; the
\* handler builds its request and suspends in client.post, whose client
\* (line 133, a new one for every call) has its connection to open first
ContactedStart(kind, comment) ==
    /\ Len(handlers) < MaxHandlers
    /\ \E p \in Pressable :
        /\ StartsWith(DataOf(p), <<kind, "_">>)
        /\ LET lead_id == LeadIdOf(DataOf(p)) IN
           handlers' = Append(handlers,
               [NewHandler(kind, p[1], DataOf(p)) EXCEPT
                   !.pc = "connect", !.lead_id = lead_id,
                   !.calls = <<[op |-> "crm.lead.update",
                                payload |-> UpdatePayload(lead_id, comment),
                                sent |-> FALSE, resp |-> Pending]>>])
    /\ UNCHANGED <<now, crm, leads_cache, messages, fetches>> /\ ClientIdle

called_handler == ContactedStart("called", "manager called")

wrote_handler == ContactedStart("wrote", "manager wrote")

\* lines 134 and 163: inside client.post the connection is open and the
\* request goes out to the CRM
RequestSent(h) ==
    /\ Running(h, {"called", "wrote", "postpone"}, "connect")
    /\ handlers' = [handlers EXCEPT ![h].pc = "crm", ![h].calls[1].sent = TRUE]
    /\ UNCHANGED <<now, crm, leads_cache, messages, fetches>> /\ ClientIdle

\* what client.post can come back with: before the request is out only a
\* transport error, after it any of the answers
Outcomes(hd, answers) ==
    IF hd.pc = "connect" THEN {Resp("transport_error", PNone)}
    ELSE IF hd.pc = "crm" THEN answers ELSE {}

\* lines 134-143 and 211-215 (225-229): client.post of crm.lead.update
\* comes back and the handler answers the query
UpdateReturn(h) ==
    /\ h \in 1..Len(handlers) /\ handlers[h].kind \in {"called", "wrote"}
    /\ \E resp \in Outcomes(handlers[h], UpdateAnswers), ok \in BOOLEAN :
        LET r == update_lead_comment(resp)
            hd == [handlers[h] EXCEPT !.calls[1].resp = resp, !.result = r.value]
            okText == IF hd.kind = "called" THEN CalledOk ELSE WroteOk
        IN
        handlers' = [handlers EXCEPT ![h] =
            IF r.raised THEN [hd EXCEPT !.pc = "raised"]
            ELSE Answered(hd, r.value, okText, UpdateError, ok)]
    /\ UNCHANGED <<now, crm, leads_cache, messages, fetches>> /\ ClientIdle

\* a postpone that goes to the CRM without looking the lead up
postpone_handler_nolookup ==
    /\ Len(handlers) < MaxHandlers
    /\ \E p \in Pressable :
        /\ StartsWith(DataOf(p), <<"postpone", "_">>)
        /\ LET lead_id == LeadIdOf(DataOf(p)) IN
           handlers' = Append(handlers,
               [NewHandler("postpone", p[1], DataOf(p)) EXCEPT
                   !.pc = "connect", !.lead_id = lead_id,
                   !.calls = <<[op |-> "tasks.task.add",
                                payload |-> TaskPayload(lead_id, PStr(Unknown), now),
                                sent |-> FALSE, resp |-> Pending]>>])
    /\ UNCHANGED <<now, crm, leads_cache, messages, fetches>> /\ ClientIdle

\* lines 232-242 with 146-163: a press of Postpone; the lead is looked up in
\* the cache; without it the handler answers "not found" and returns, with
\* it the handler builds its request (the deadline from the clock of line
\* 151) and suspends in client.post of create_follow_up_task, whose client
\* (line 162) has its connection to open first
postpone_handler ==
    /\ Len(handlers) < MaxHandlers
    /\ \E p \in Pressable, ok \in BOOLEAN :
        /\ StartsWith(DataOf(p), <<"postpone", "_">>)
        /\ LET lead_id == LeadIdOf(DataOf(p))
               hd == [NewHandler("postpone", p[1], DataOf(p)) EXCEPT !.lead_id = lead_id]
           IN
           IF lead_id \notin DOMAIN leads_cache
           THEN handlers' = Append(handlers,
                    [hd EXCEPT !.out = <<Ack(NotFound, ok)>>,
                               !.pc = IF ok THEN "done" ELSE "raised"])
           ELSE /\ ok
                /\ handlers' = Append(handlers,
                    [hd EXCEPT !.pc = "connect",
                        !.calls = <<[op |-> "tasks.task.add",
                                     payload |-> TaskPayload(lead_id,
                                                     leads_cache[lead_id].name, now),
                                     sent |-> FALSE, resp |-> Pending]>>])
    /\ UNCHANGED <<now, crm, leads_cache, messages, fetches>> /\ ClientIdle

\* a postpone that forgets the lead when its task was not created
TaskReturn_evict(h) ==
    /\ h \in 1..Len(handlers) /\ handlers[h].kind = "postpone"
    /\ \E resp \in Outcomes(handlers[h], TaskAnswers), ok \in BOOLEAN :
        LET r == create_follow_up_task(resp)
            hd == [handlers[h] EXCEPT !.calls[1].resp = resp, !.result = r.value]
        IN
        /\ handlers' = [handlers EXCEPT ![h] =
               Answered(hd, r.value, TaskOk, TaskError, ok)]
        /\ leads_cache' =
               IF Truthy(r.value) THEN leads_cache
               ELSE [k \in DOMAIN leads_cache \ {hd.lead_id} |-> leads_cache[k]]
    /\ UNCHANGED <<now, crm, messages, fetches>> /\ ClientIdle

\* lines 163-173 and 244-248: client.post of tasks.task.add comes back and
\* the handler answers the query
TaskReturn(h) ==
    /\ h \in 1..Len(handlers) /\ handlers[h].kind = "postpone"
    /\ \E resp \in Outcomes(handlers[h], TaskAnswers), ok \in BOOLEAN :
        LET r == create_follow_up_task(resp)
            hd == [handlers[h] EXCEPT !.calls[1].resp = resp, !.result = r.value]
        IN
        handlers' = [handlers EXCEPT ![h] =
            IF r.raised THEN [hd EXCEPT !.pc = "raised"]
            ELSE Answered(hd, r.value, TaskOk, TaskError, ok)]
    /\ UNCHANGED <<now, crm, leads_cache, messages, fetches>> /\ ClientIdle

\* an edit that takes away only the button that was pressed
EditReturn_partial(h) ==
    /\ Running(h, {"called", "wrote", "postpone"}, "edit")
    /\ LET m == handlers[h].msg IN
        /\ messages[m].reply_markup # <<>>
        /\ handlers' = [handlers EXCEPT ![h].edits = @ + 1, ![h].pc = "done"]
        /\ messages' = [messages EXCEPT
               ![m].reply_markup =
                   SelectSeq(@, LAMBDA b : b.callback_data # handlers[h].data),
               ![m].retracted_by = h]
    /\ UNCHANGED <<now, crm, leads_cache, fetches>> /\ ClientIdle

\* lines 213, 227, 246: edit_reply_markup(reply_markup=None) completes and
\* the message loses its keyboard, or raises (the platform also refuses an
\* edit that changes nothing)
EditReturn(h) ==
    /\ Running(h, {"called", "wrote", "postpone"}, "edit")
    /\ LET m == handlers[h].msg IN
       \E ok \in IF messages[m].reply_markup # <<>> THEN BOOLEAN ELSE {FALSE} :
        /\ handlers' = [handlers EXCEPT ![h].edits = @ + 1,
                                        ![h].pc = IF ok THEN "done" ELSE "raised"]
        /\ messages' = IF ok
                       THEN [messages EXCEPT ![m].reply_markup = <<>>,
                                             ![m].retracted_by = h]
                       ELSE messages
    /\ UNCHANGED <<now, crm, leads_cache, fetches>> /\ ClientIdle

Next ==
    \/ Tick
    \/ CrmLeadProcessed
    \/ leads_command
    \/ called_handler
    \/ wrote_handler
    \/ postpone_handler
    \/ \E h \in 1..MaxHandlers :
        \/ SendLeadReturn(h)
        \/ RequestSent(h)
        \/ UpdateReturn(h)
        \/ TaskReturn(h)
        \/ EditReturn(h)

Spec == BotInit /\ [][Next]_vars

-----------------------------------------------------------------------------
(* Claims about the bot, checked under Spec *)

H == 1..Len(handlers)
Finished(hd) == hd.pc \in {"done", "raised"}
IsPress(hd) == hd.kind \in {"called", "wrote", "postpone"}
OkFetches == { i \in 1..Len(fetches) : fetches[i].ok }
LastOk == CHOOSE i \in OkFetches : \A j \in OkFetches : j <= i
Among(lead, list) == \E j \in 1..Len(list) : list[j] = lead
\* a handler that has finished does nothing more
FinishedStay ==
    \A h \in H : Finished(handlers[h]) => handlers'[h] = handlers[h]

\* C2 as stated: every lead in leads_cache was returned by the most recent
\* successful fetch.
Claim_C2 ==
    OkFetches # {} =>
        \A k \in DOMAIN leads_cache : Among(leads_cache[k], fetches[LastOk].leads)

\* C2 as amended: every lead in leads_cache is held under its own identifier
\* and was returned by some successful fetch since the process started.
Theorem_C2 ==
    \A k \in DOMAIN leads_cache :
        /\ leads_cache[k].id = k
        /\ \E i \in OkFetches : Among(leads_cache[k], fetches[i].leads)

\* an entry of an earlier fetch has survived a later successful fetch that
\* did not return it
Witness_C2 ==
    /\ OkFetches # {}
    /\ \E k \in DOMAIN leads_cache :
        /\ ~Among(leads_cache[k], fetches[LastOk].leads)
        /\ \E i \in OkFetches : i < LastOk /\ Among(leads_cache[k], fetches[i].leads)

AcksOf(hd) == { i \in 1..Len(hd.out) : hd.out[i].what = "ack" }

\* C3 as stated: by the time its handler finishes, every /leads command and
\* every button press has yielded exactly one acknowledgment, counting every
\* message and answer the handler sent to the operator.
Claim_C3 ==
    \A h \in H : Finished(handlers[h]) => Len(handlers[h].out) = 1

\* C3 as amended: a finished button-press handler has issued exactly one
\* query.answer, whatever its CRM call came to; a finished /leads cycle with
\* an empty list has issued exactly one "no expired leads" message, one with
\* leads has issued no acknowledgment and at most one message per lead; what
\* fails to be delivered is not sent again.
Theorem_C3 ==
    \A h \in H :
        LET hd == handlers[h] IN
        Finished(hd) =>
            IF IsPress(hd)
            THEN Len(hd.out) = 1 /\ hd.out[1].what = "ack"
            ELSE IF hd.leads = <<>>
            THEN Len(hd.out) = 1 /\ hd.out[1].what = "ack" /\ hd.out[1].text = NoLeads
            ELSE /\ AcksOf(hd) = {}
                 /\ Len(hd.out) = Len(hd.leads)
                 /\ \A i \in 1..Len(hd.out) : hd.out[i].lead = hd.leads[i].id

\* a press whose CRM update failed was answered once, with the error wording
Witness_C3 ==
    \E h \in H :
        /\ handlers[h].kind = "called" /\ handlers[h].pc = "done"
        /\ ~Truthy(handlers[h].result)
        /\ handlers[h].out = <<Ack(UpdateError, TRUE)>>

\* C4: a postpone whose lead identifier is not a key of leads_cache answers
\* "not found", issues no CRM request and leaves the keyboards and the cache as
\* they are (and, being finished, does nothing later).
Theorem_C4 ==
    [][ /\ FinishedStay
        /\ \A h \in 1..Len(handlers') :
            ( /\ h > Len(handlers)
              /\ handlers'[h].kind = "postpone"
              /\ handlers'[h].lead_id \notin DOMAIN leads_cache )
            => /\ Len(handlers'[h].out) = 1
               /\ handlers'[h].out[1].what = "ack"
               /\ handlers'[h].out[1].text = NotFound
               /\ handlers'[h].calls = <<>>
               /\ handlers'[h].edits = 0
               /\ Finished(handlers'[h])
               /\ UNCHANGED <<leads_cache, messages>> ]_vars

\* a postpone on the message of lead 7, which the cache holds under the
\* integer 7, was answered "not found"
Witness_C4 ==
    \E h \in H :
        /\ handlers[h].kind = "postpone" /\ handlers[h].pc = "done"
        /\ handlers[h].lead_id \notin DOMAIN leads_cache
        /\ handlers[h].out = <<Ack(NotFound, TRUE)>>
        /\ messages[handlers[h].msg].reply_markup # <<>>

CommentOf(kind) == IF kind = "called" THEN "manager called" ELSE "manager wrote"
UpdateSucceeded(hd) ==
    /\ hd.kind \in {"called", "wrote"} /\ hd.calls # <<>>
    /\ hd.calls[1].resp = Resp("json", PDict([result |-> PBool(TRUE)]))

\* C5: a called or wrote press whose CRM update succeeds has made exactly one
\* crm.lead.update request, for the lead of the pressed message and with the
\* comment of its kind, and ends with the keyboard of that message removed.
Claim_C5 ==
    \A h \in H :
        LET hd == handlers[h] IN
        (Finished(hd) /\ UpdateSucceeded(hd)) =>
            /\ Len(hd.calls) = 1
            /\ hd.calls[1].op = "crm.lead.update"
            /\ hd.calls[1].payload =
                   UpdatePayload(PStr(Format(messages[hd.msg].lead)), CommentOf(hd.kind))
            /\ messages[hd.msg].reply_markup = <<>>

Theorem_C9 ==
    [][ /\ \A h \in 1..Len(handlers') :
            LET hd == handlers'[h] IN
            hd.kind = "leads" =>
                IF hd.leads = <<>>
                THEN /\ hd.out = <<Ack(NoLeads, TRUE)>> \/ hd.out = <<Ack(NoLeads, FALSE)>>
                     /\ Finished(hd)
                     /\ h > Len(handlers) => UNCHANGED <<leads_cache, messages>>
                ELSE \A i \in 1..Len(hd.out) :
                        hd.out[i].what = "lead" /\ hd.out[i].text # NoLeads
        /\ FinishedStay ]_vars

\* a cycle that found nothing said so once, on a cache an earlier cycle filled
Witness_C9 ==
    \E h \in H :
        /\ handlers[h].kind = "leads" /\ handlers[h].leads = <<>>
        /\ handlers[h].out = <<Ack(NoLeads, TRUE)>>
        /\ fetches[Len(fetches)].ok
        /\ DOMAIN leads_cache # {}

TaskCreated(hd) ==
    /\ hd.kind = "postpone" /\ hd.calls # <<>>
    /\ hd.calls[1].resp \in {Resp("json", NestedTask(PInt(57))), Resp("json", FlatTask(PInt(57)))}

\* C10: a postpone on a cached lead whose task creation succeeds has issued one
\* tasks.task.add request whose deadline is the time of the press plus two
\* hours and whose title carries the cached name, has given the operator the
\* success acknowledgment, and has removed the keyboard of the message.
Claim_C10 ==
    \A h \in H :
        LET hd == handlers[h] IN
        (Finished(hd) /\ TaskCreated(hd)) =>
            /\ Len(hd.calls) = 1
            /\ hd.calls[1].payload.DEADLINE = <<ToString(hd.start + DeadlineHours * 60)>>
            /\ hd.calls[1].payload.TITLE = FollowUp \o Format(leads_cache[hd.lead_id].name)
            /\ hd.out = <<Ack(TaskOk, TRUE)>>
            /\ messages[hd.msg].reply_markup = <<>>

M == 1..Len(messages)
Retracted(m) == messages[m].retracted_by # 0
\* the handlers a step starts
Started == { h \in 1..Len(handlers') : h > Len(handlers) }
\* the handlers whose CRM request a step sends
Sending == { h \in H : /\ handlers[h].calls # <<>> /\ ~handlers[h].calls[1].sent
                       /\ handlers'[h].calls[1].sent }

\* C11 as stated: once the controls of a message have been retracted, no CRM
\* request (lead update or task creation) goes out on behalf of that message,
\* whatever the interleaving of the button-press handlers.
Claim_C11 ==
    [][ \A h \in Sending : ~Retracted(handlers[h].msg) ]_vars

\* C11 as amended: retracted controls stay retracted and no handler is started
\* for a message whose controls are retracted; every handler sends at most one
\* CRM request, so a request that goes out on behalf of a retracted message
\* comes from a handler whose press preceded the retraction.
Theorem_C11 ==
    [][ /\ \A m \in M : Retracted(m) =>
              /\ messages[m].reply_markup = <<>>
              /\ messages'[m] = messages[m]
        /\ \A h \in Started : IsPress(handlers'[h]) => ~Retracted(handlers'[h].msg)
        /\ \A h \in H : /\ Len(handlers'[h].calls) <= 1
                        /\ handlers[h].calls # <<>> => handlers'[h].calls # <<>>
                        /\ (handlers[h].calls # <<>> /\ handlers[h].calls[1].sent)
                              => handlers'[h].calls[1].sent ]_vars

\* two presses on one message: one handler retracted the controls, the other
\* made its CRM write as well and then found nothing left to retract
Witness_C11 ==
    \E a, b \in H :
        /\ a # b /\ handlers[a].msg = handlers[b].msg /\ IsPress(handlers[b])
        /\ messages[handlers[a].msg].retracted_by = a
        /\ handlers[b].calls # <<>> /\ handlers[b].calls[1].sent
        /\ Truthy(handlers[b].result) /\ handlers[b].edits = 1
        /\ handlers[b].pc = "raised"

FailedPostpone(hd) ==
    /\ hd.kind = "postpone" /\ Finished(hd)
    /\ hd.calls # <<>> /\ ~Truthy(hd.result)

\* C13: a postpone on a cached lead whose task creation fails answers with the
\* failure wording, makes no edit of the message and leaves the lead in the
\* cache; the controls stay as presented unless another handler retracts
\* them, and every later postpone press on the message makes a new
\* task-creation request.
Theorem_C13 ==
    \A h \in H :
        LET hd == handlers[h] IN
        FailedPostpone(hd) =>
            /\ Len(hd.out) = 1 /\ hd.out[1].what = "ack" /\ hd.out[1].text = TaskError
            /\ hd.edits = 0
            /\ hd.lead_id \in DOMAIN leads_cache
            /\ ~Retracted(hd.msg)
                  => messages[hd.msg].reply_markup
                         = create_lead_keyboard(messages[hd.msg].lead)
            /\ \A b \in H :
                  (b > h /\ handlers[b].kind = "postpone" /\ handlers[b].msg = hd.msg)
                  => /\ handlers[b].calls # <<>>
                     /\ handlers[b].calls[1].op = "tasks.task.add"

\* a postpone failed at the CRM and was told so; a later postpone on the same
\* message created its task and retracted the controls
Witness_C13 ==
    \E a, b \in H :
        /\ a < b /\ handlers[a].msg = handlers[b].msg
        /\ FailedPostpone(handlers[a])
        /\ handlers[a].calls[1].resp = Resp("transport_error", PNone)
        /\ handlers[a].out = <<Ack(TaskError, TRUE)>>
        /\ handlers[b].kind = "postpone" /\ handlers[b].pc = "done"
        /\ handlers[b].start >= handlers[a].start
        /\ Truthy(handlers[b].result)
        /\ messages[handlers[b].msg].retracted_by = b

\* a /leads cycle that went into its loop
Presenting(hd) == hd.kind = "leads" /\ hd.leads # <<>>

\* C14: a /leads cycle with filtered leads l1..ln attempts one send per lead
\* in input order, whether or not the sends before it were delivered, and
\* ends only past ln, with every lead of the list under its identifier in
\* leads_cache.
Theorem_C14 ==
    \A h \in H :
        LET hd == handlers[h] IN
        Presenting(hd) =>
            /\ hd.pc \in {"send_lead", "done"}
            /\ Len(hd.out) = hd.i - 1
            /\ \A j \in 1..Len(hd.out) :
                  hd.out[j].what = "lead" /\ hd.out[j].lead = hd.leads[j].id
            /\ \A j \in 1..Len(hd.leads) :
                  j <= hd.i => hd.leads[j].id \in DOMAIN leads_cache
            /\ hd.pc = "done" <=> hd.i = Len(hd.leads) + 1

\* a cycle with two leads ended: the message of the first was not delivered,
\* the message of the second was, and both leads are in the cache
Witness_C14 ==
    \E h \in H :
        LET hd == handlers[h] IN
        /\ Presenting(hd) /\ hd.pc = "done" /\ Len(hd.leads) = 2
        /\ Len(hd.out) = 2 /\ ~hd.out[1].ok /\ hd.out[2].ok
        /\ \E m \in M : messages[m].lead = hd.leads[2].id
        /\ \A m \in M : messages[m].lead # hd.leads[1].id
        /\ \A j \in 1..2 : hd.leads[j].id \in DOMAIN leads_cache

\* the handlers that take a step
Stepping == { h \in H : handlers'[h] # handlers[h] } \cup Started

\* C15: no step removes a key from leads_cache; called, wrote and postpone
\* handlers never change it; every change is made by a /leads cycle that
\* stores, under its identifier, the lead of its filtered list at which its
\* loop has arrived.
Theorem_C15 ==
    [][ /\ DOMAIN leads_cache \subseteq DOMAIN leads_cache'
        /\ \A h \in Stepping : IsPress(handlers'[h]) => leads_cache' = leads_cache
        /\ leads_cache' # leads_cache =>
              \E h \in Stepping :
                  LET hd == handlers'[h] IN
                  /\ Presenting(hd) /\ hd.pc = "send_lead"
                  /\ DOMAIN leads_cache' = DOMAIN leads_cache \cup {hd.leads[hd.i].id}
                  /\ leads_cache'[hd.leads[hd.i].id] = hd.leads[hd.i]
                  /\ \A k \in DOMAIN leads_cache :
                        k # hd.leads[hd.i].id => leads_cache'[k] = leads_cache[k] ]_vars

\* the cache holds the two leads of a cycle and a postpone has read one of
\* them for the title of its task
Witness_C15 ==
    /\ Cardinality(DOMAIN leads_cache) = 2
    /\ \E h \in H :
          /\ handlers[h].kind = "postpone" /\ Finished(handlers[h])
          /\ handlers[h].calls # <<>>
          /\ handlers[h].calls[1].payload.TITLE
                 = FollowUp \o Format(leads_cache[handlers[h].lead_id].name)

\* the callback data of the Postpone button of a message
PostponeData(m) == create_lead_keyboard(messages[m].lead)[3].callback_data

\* C16: for every message presented since the start, the identifier that
\* postpone_handler recovers from the callback data of its Postpone button is
\* the key under which the lead was stored, and is a key of leads_cache.
Claim_C16 ==
    \A m \in M :
        /\ LeadIdOf(PostponeData(m)) = messages[m].lead
        /\ LeadIdOf(PostponeData(m)) \in DOMAIN leads_cache

\* the CRM call of a handler went out and came back with a truthy result
ReportedSuccess(hd) ==
    /\ hd.calls # <<>> /\ hd.calls[1].sent /\ hd.calls[1].resp.kind = "json"
    /\ Truthy(hd.result)

\* C17: a message whose controls are retracted was retracted by a handler of
\* a press on that message whose CRM write for the lead of the message
\* (crm.lead.update or tasks.task.add) was reported successful; no handler
\* attempts the retraction after a failed or skipped CRM call.
Theorem_C17 ==
    /\ \A m \in M :
          /\ messages[m].reply_markup = <<>> <=> Retracted(m)
          /\ Retracted(m) =>
                LET hd == handlers[messages[m].retracted_by] IN
                /\ IsPress(hd) /\ hd.msg = m
                /\ hd.lead_id = PStr(Format(messages[m].lead))
                /\ ReportedSuccess(hd)
                /\ hd.edits = 1 /\ hd.pc = "done"
    /\ \A h \in H :
          (handlers[h].pc = "edit" \/ handlers[h].edits > 0)
          => ReportedSuccess(handlers[h])

\* the controls of a message were retracted by a Wrote press whose update the
\* CRM confirmed, after a Postpone press on the same message had failed and
\* left them
Witness_C17 ==
    \E a, b \in H :
        /\ handlers[a].msg = handlers[b].msg
        /\ handlers[a].kind = "postpone" /\ handlers[a].pc = "done"
        /\ handlers[a].calls # <<>> /\ ~Truthy(handlers[a].result)
        /\ handlers[b].kind = "wrote"
        /\ handlers[b].calls[1].resp = Resp("json", PDict([result |-> PBool(TRUE)]))
        /\ messages[handlers[b].msg].retracted_by = b
        /\ messages[handlers[b].msg].reply_markup = <<>>

\* no cycle sends a message for a lead whose controls had been retracted
\* before the cycle fetched its list
NotPresentedAgain ==
    \A h \in H :
        handlers[h].kind = "leads" =>
            \A j \in 1..Len(handlers[h].out) :
                handlers[h].out[j].what = "lead"
                => handlers[h].out[j].lead \notin handlers[h].resolved

\* no two handlers have had a CRM write for the same lead reported successful
OneWritePerLead ==
    \A a, b \in H :
        (/\ a # b /\ IsPress(handlers[a]) /\ IsPress(handlers[b])
         /\ ReportedSuccess(handlers[a]) /\ ReportedSuccess(handlers[b]))
        => handlers[a].lead_id # handlers[b].lead_id

\* C18: a lead resolved by a successful action is not presented again by a
\* later /leads cycle, and at most one successful CRM write is ever made per
\* lead.
Claim_C18 == NotPresentedAgain /\ OneWritePerLead

====
